---- MODULE Spec2Model ----
(***************************************************************************)
(* A model of steem.http_client.HttpClient: the JSON-RPC request builder,  *)
(* the node rotation (change_node), the failover path of exec, the        *)
(* response parser (_return) and the two batch dispatchers (exec_multi,   *)
(* exec_multi_with_futures).                                               *)
(*                                                                         *)
(* Thread 0 is the caller of the client; threads 1..MaxBatch are the      *)
(* workers of the ThreadPoolExecutor of exec_multi_with_futures.  The      *)
(* transport (urllib3) is the environment: every send is answered by a    *)
(* response body, by MaxRetryError, or by some other exception.           *)
(*                                                                         *)
(* Python values: None is the string "None", True/False given as keyword  *)
(* arguments are the strings "True"/"False" (so that None is a third      *)
(* value), tuples and lists are sequences.  Logging is not modelled.      *)
(***************************************************************************)
EXTENDS Integers, Sequences, FiniteSets, TLC

\* ------------------------------------------------------------------ bounds
\* the largest number of endpoints a client is constructed with
MaxNodes == 3
\* connectivity failures (MaxRetryError) the transport injects into one run
MaxFailures == 12
\* connectivity failures injected into one concurrent batch
MaxBatchFailures == 2
\* the longest batch handed to exec_multi / exec_multi_with_futures
MaxBatch == 2
\* manual change_node calls the caller makes before its call
MaxManual == 2
\* the largest request id passed to json_rpc_body
MaxId == 2

\* ------------------------------------------------------- program constants
\* exec: if _ret_cnt > 2: time.sleep(5*_ret_cnt)   elif _ret_cnt > 10: raise e
SleepThreshold == 2
SleepFactor == 5
RetryCeiling == 10
\* json_rpc_body(..., _id=0) and the "id": 0 of exec_multi
DefaultId == 0

Caller == 0
Workers == 1..MaxBatch
Threads == {Caller} \cup Workers

None == "None"
\* a keyword argument the call does not pass
NotPassed == "not passed"
MethodName == "get_followers"
Namespace == "follow_api"
\* the positional arguments of an exec call
ArgTuples == {<<"a">>, <<"a", "b">>}
\* inputs of json_rpc_body
MethodNames == {MethodName, "get_accounts"}
BodyArgs == ArgTuples \cup {<< >>, <<"b", "a">>}
ApiArgs == {None, "", Namespace}
IdArgs == {[passed |-> FALSE, value |-> 0]}
              \cup {[passed |-> TRUE, value |-> i] : i \in 0..MaxId}
\* the parameter sets of a batch: each element of params is one call's parameters
Params == {<<"a", "b">>, <<"c", "d">>}
\* the params lists given to exec_multi / exec_multi_with_futures
Batches == UNION {[1..n -> Params] : n \in 0..MaxBatch}

VARIABLES
    nodes,      \* the list given to the constructor
    cursor,     \* self.nodes = cycle(nodes): index of the element next() yields next
    url,        \* self.url
    request,    \* the url bound in self.request = partial(self.http.urlopen, 'POST', url)
    client,     \* self.return_with_args, self.re_raise
    mode,       \* which entry point the caller uses in this run
    frame,      \* per thread: program counter and the locals of exec / change_node
    outcome,    \* per thread: how the thread's call ended
    sent,       \* per thread: the requests sent, in order (target url and body)
    recv,       \* per thread: the responses received, in order
    slept,      \* per thread: the time.sleep durations, in order
    rotations,  \* change_node calls completed since construction
    failures,   \* MaxRetryErrors injected so far
    calls,      \* entry points called and manual change_node calls made so far
    batch,      \* the params of the running batch
    yielded,    \* what the batch generator has yielded, in order
    gen,        \* the batch generator: position and state
    built,      \* the last call of the static json_rpc_body: its arguments and result
    healthy     \* SpecHealthy: the endpoints that always answer (the others
                \* always fail); the other specifications fix no endpoint's health

vars == <<nodes, cursor, url, request, client, mode, frame, outcome, sent, recv,
          slept, rotations, failures, calls, batch, yielded, gen, built, healthy>>

\* ---------------------------------------------------------- python values
\* bool(v) of a keyword argument that is None, True or False
Truthy(v) == v = "True"
\* the value of a keyword parameter: its default when the call does not pass it
Keyword(v, default) == IF v = NotPassed THEN default ELSE Truthy(v)

\* how a call ends: a returned value (bare, or the pair (result, args)) or a
\* raised exception
NoOutcome ==
    [kind |-> "none", paired |-> FALSE, result |-> None, args |-> << >>,
     exc |-> None, msg |-> None]
Returned(paired, result, args) ==
    [kind |-> "return", paired |-> paired, result |-> result,
     args |-> IF paired THEN args ELSE << >>, exc |-> None, msg |-> None]
Raised(exc, msg) ==
    [kind |-> "raise", paired |-> FALSE, result |-> None, args |-> << >>,
     exc |-> exc, msg |-> msg]

\* ------------------------------------------------------ transport responses
\* A response body, by what json.loads makes of it: json is "invalid" (not
\* JSON), "array", "number", or "object"; for an object, result is the value of
\* its "result" key ("null" for JSON null), error says whether it has an "error"
\* key, detail and message are the values of the error object's keys; "absent"
\* marks a missing key.
Absent == "absent"
Body(json, result, error, detail, message) ==
    [json |-> json, result |-> result, error |-> error, detail |-> detail,
     message |-> message]
ResultBody(v) == Body("object", v, Absent, Absent, Absent)
ErrorBody(detail, message) == Body("object", Absent, "present", detail, message)
\* response=None of _return
NoResponse == Body("no response", Absent, Absent, Absent, Absent)
Responses ==
    { ResultBody("r1"), ResultBody("null"), ResultBody(Absent),
      ErrorBody(Absent, "x"), ErrorBody("y", "x"), ErrorBody("y", Absent),
      Body("invalid", Absent, Absent, Absent, Absent),
      Body("array", Absent, Absent, Absent, Absent),
      Body("number", Absent, Absent, Absent, Absent) }

\* the bodies the nodes answer the calls of a concurrent batch with
BatchResponses == {ResultBody("r1"), ResultBody("null"), ErrorBody(Absent, "x")}

\* --------------------------------------------------------- json_rpc_body
\* The dict that json.dumps serialises; with api the wire method is "call".
\* a body builder that puts the method name before the namespace
json_rpc_body_swapped(name, args, api, id) ==
    IF api # None /\ api # ""
    THEN [jsonrpc |-> "2.0", id |-> id, method |-> "call",
          params |-> <<name, api, args>>]
    ELSE [jsonrpc |-> "2.0", id |-> id, method |-> name, params |-> args]

json_rpc_body(name, args, api, id) ==
    IF api # None /\ api # ""
    THEN [jsonrpc |-> "2.0", id |-> id, method |-> "call",
          params |-> <<api, name, args>>]
    ELSE [jsonrpc |-> "2.0", id |-> id, method |-> name, params |-> args]

\* ---------------------------------------------------------------- _return
\* error.get('detail', response_json['error']['message']): the default is
\* evaluated first, so a missing "message" raises KeyError
ErrorMessage(response) ==
    IF response.message = Absent THEN Raised("KeyError", "message")
    ELSE Raised("RPCError",
                IF response.detail # Absent THEN response.detail
                ELSE response.message)

\* response_json.get('result', None)
ResultOf(response) ==
    IF response.result \in {Absent, "null"} THEN None ELSE response.result

Return(response, args, return_with_args, self_return_with_args) ==
    LET rwa == Truthy(return_with_args) \/ self_return_with_args
    IN  CASE response = NoResponse -> Returned(rwa, None, args)
          [] response.json = "invalid" -> Returned(rwa, None, args)
          [] response.json = "number" -> Raised("TypeError", "not iterable")
          [] response.json = "array" -> Raised("AttributeError", "get")
          [] OTHER ->
               IF response.error # Absent THEN ErrorMessage(response)
               ELSE Returned(rwa, ResultOf(response), args)

\* ------------------------------------------------------------------- state
\* a thread that runs nothing
IdleFrame ==
    [pc |-> "idle", caller |-> "none", args |-> << >>, api |-> None,
     re_raise |-> TRUE, return_with_args |-> None, ret_cnt |-> 0, reg |-> 0,
     api0 |-> None, url0 |-> 0, rot0 |-> 0, re_raise0 |-> NotPassed,
     event |-> "none"]

\* the frame of exec(name, *args, api=api, re_raise=re_raise,
\* return_with_args=return_with_args) at its first statement: the parameter
\* re_raise is True unless the call passes it (def exec(..., re_raise=True, ...)).
\* api0, url0, rot0 and re_raise0 record the api argument, self.url, the
\* rotation count and the re_raise keyword at the call; event is what the
\* transport did to the last send
ExecFrame(args, api, re_raise, return_with_args) ==
    [pc |-> "send", caller |-> "exec", args |-> args, api |-> api,
     re_raise |-> Keyword(re_raise, TRUE), return_with_args |-> return_with_args,
     ret_cnt |-> 0, reg |-> 0, api0 |-> api, url0 |-> url, rot0 |-> rotations,
     re_raise0 |-> re_raise, event |-> "none"]

NewGen == [pc |-> "created", i |-> 0, consumed |-> {}]

\* json_rpc_body has not been called
NotBuilt ==
    [called |-> FALSE, name |-> None, args |-> << >>, api |-> None,
     id |-> [passed |-> FALSE, value |-> 0], as_json |-> TRUE,
     result |-> [kind |-> "none",
                 json |-> [jsonrpc |-> None, id |-> 0, method |-> None,
                           params |-> << >>]]]

\* a constructor that takes nodes[0] as the active node without advancing the
\* cycle
ConstructUnrotated(m, how, rwa, rr, params) ==
    /\ nodes = [i \in 1..m |-> i - 1]
    /\ cursor = 0
    /\ url = 0
    /\ request = 0
    /\ client = [return_with_args |-> rwa, re_raise |-> rr]
    /\ mode = how
    /\ frame = [t \in Threads |-> IdleFrame]
    /\ outcome = [t \in Threads |-> NoOutcome]
    /\ sent = [t \in Threads |-> << >>]
    /\ recv = [t \in Threads |-> << >>]
    /\ slept = [t \in Threads |-> << >>]
    /\ rotations = 0
    /\ failures = 0
    /\ calls = [exec |-> 0, manual |-> 0]
    /\ batch = params
    /\ yielded = << >>
    /\ gen = NewGen
    /\ built = NotBuilt

\* HttpClient(nodes, return_with_args=..., re_raise=...): self.nodes =
\* cycle(nodes), then change_node() makes the first node the active one
Construct(m, how, rwa, rr, params) ==
    /\ nodes = [i \in 1..m |-> i - 1]
    /\ cursor = 1 % m
    /\ url = 0
    /\ request = 0
    /\ client = [return_with_args |-> rwa, re_raise |-> rr]
    /\ mode = how
    /\ frame = [t \in Threads |-> IdleFrame]
    /\ outcome = [t \in Threads |-> NoOutcome]
    /\ sent = [t \in Threads |-> << >>]
    /\ recv = [t \in Threads |-> << >>]
    /\ slept = [t \in Threads |-> << >>]
    /\ rotations = 0
    /\ failures = 0
    /\ calls = [exec |-> 0, manual |-> 0]
    /\ batch = params
    /\ yielded = << >>
    /\ gen = NewGen
    /\ built = NotBuilt

Init ==
    \E m \in 1..MaxNodes, rwa \in BOOLEAN, rr \in BOOLEAN :
        /\ Construct(m, "exec", rwa, rr, << >>)
        /\ healthy = {}

\* the connectivity failures the transport may inject, and the bodies it may
\* answer with
FailureBudget == IF mode = "futures" THEN MaxBatchFailures ELSE MaxFailures
Answers == IF mode = "futures" THEN BatchResponses ELSE Responses

\* ------------------------------------------------------------- change_node
\* change_node with an iterator that is started again at every call
ChangeNodeNextRestarted(t) ==
    /\ frame[t].pc = "cn_next"
    /\ frame' = [frame EXCEPT ![t].reg = nodes[cursor + 1], ![t].pc = "cn_url"]
    /\ UNCHANGED <<built, healthy, nodes, cursor, url, request, client, mode, outcome, sent, recv,
                   slept, rotations, failures, calls, batch, yielded, gen>>

\* self.url = next(self.nodes): the call of next ...
ChangeNodeNext(t) ==
    /\ frame[t].pc = "cn_next"
    /\ frame' = [frame EXCEPT ![t].reg = nodes[cursor + 1], ![t].pc = "cn_url"]
    /\ cursor' = (cursor + 1) % Len(nodes)
    /\ UNCHANGED <<built, healthy, nodes, url, request, client, mode, outcome, sent, recv, slept,
                   rotations, failures, calls, batch, yielded, gen>>

\* ... and the store to self.url
ChangeNodeStoreUrl(t) ==
    /\ frame[t].pc = "cn_url"
    /\ url' = frame[t].reg
    /\ frame' = [frame EXCEPT ![t].pc = "cn_read"]
    /\ UNCHANGED <<built, healthy, nodes, cursor, request, client, mode, outcome, sent, recv,
                   slept, rotations, failures, calls, batch, yielded, gen>>

\* self.request = partial(self.http.urlopen, 'POST', self.url): the read of
\* self.url ...
ChangeNodeReadUrl(t) ==
    /\ frame[t].pc = "cn_read"
    /\ frame' = [frame EXCEPT ![t].reg = url, ![t].pc = "cn_request"]
    /\ UNCHANGED <<built, healthy, nodes, cursor, url, request, client, mode, outcome, sent, recv,
                   slept, rotations, failures, calls, batch, yielded, gen>>

\* where change_node returns to: exec re-enters itself with _ret_cnt + 1 and
\* without api (exec passes re_raise and return_with_args on, not api); a
\* manual change_node returns to the caller
AfterChangeNode(f) ==
    IF f.caller = "exec"
    THEN [f EXCEPT !.pc = "send", !.ret_cnt = f.ret_cnt + 1, !.api = None]
    ELSE [f EXCEPT !.pc = "idle"]

\* ... and the store to self.request
Last(q) == q[Len(q)]

\* a rotation that counts but leaves the bound request on the old url
ChangeNodeStoreRequestStale(t) ==
    /\ frame[t].pc = "cn_request"
    /\ rotations' = rotations + 1
    /\ frame' = [frame EXCEPT ![t] = AfterChangeNode(frame[t])]
    /\ UNCHANGED <<built, healthy, nodes, cursor, url, request, client, mode,
                   outcome, sent, recv, slept, failures, calls, batch,
                   yielded, gen>>

ChangeNodeStoreRequest(t) ==
    /\ frame[t].pc = "cn_request"
    /\ request' = frame[t].reg
    /\ rotations' = rotations + 1
    /\ frame' = [frame EXCEPT ![t] = AfterChangeNode(frame[t])]
    /\ UNCHANGED <<built, healthy, nodes, cursor, url, client, mode, outcome, sent, recv, slept,
                   failures, calls, batch, yielded, gen>>

\* -------------------------------------------------------------------- exec
\* body = json_rpc_body(name, *args, api=api); self.request(body=body)
ExecSend(t) ==
    /\ frame[t].pc = "send"
    /\ sent' = [sent EXCEPT ![t] =
           Append(@, [url |-> request,
                      body |-> json_rpc_body(MethodName, frame[t].args,
                                             frame[t].api, DefaultId)])]
    /\ frame' = [frame EXCEPT ![t].pc = "wait"]
    /\ UNCHANGED <<built, healthy, nodes, cursor, url, request, client, mode, outcome, recv, slept,
                   rotations, failures, calls, batch, yielded, gen>>

\* else: return self._return(response=response, args=args, ...)
ExecResponse(t, r) ==
    /\ frame[t].pc = "wait"
    /\ recv' = [recv EXCEPT ![t] = Append(@, r)]
    /\ outcome' = [outcome EXCEPT ![t] =
           Return(r, frame[t].args, frame[t].return_with_args,
                  client.return_with_args)]
    /\ frame' = [frame EXCEPT ![t].pc = "done", ![t].event = "response"]
    /\ UNCHANGED <<built, healthy, nodes, cursor, url, request, client, mode, sent, slept,
                   rotations, failures, calls, batch, yielded, gen>>

\* except MaxRetryError: what the handler does before change_node
\*   if _ret_cnt > 2: time.sleep(5*_ret_cnt)   elif _ret_cnt > 10: raise e
\* a decision that tests the counter after counting the failure at hand
RetryDecisionCounted(ret_cnt) ==
    IF ret_cnt + 1 > SleepThreshold THEN "sleep"
    ELSE IF ret_cnt + 1 > RetryCeiling THEN "raise"
    ELSE "retry"

RetryDecision(ret_cnt) ==
    IF ret_cnt > SleepThreshold THEN "sleep"
    ELSE IF ret_cnt > RetryCeiling THEN "raise"
    ELSE "retry"

ExecMaxRetryError(t) ==
    /\ frame[t].pc = "wait"
    /\ failures < FailureBudget
    /\ failures' = failures + 1
    /\ LET d == RetryDecision(frame[t].ret_cnt)
       IN  /\ slept' = [slept EXCEPT ![t] =
                  IF d = "sleep" THEN Append(@, SleepFactor * frame[t].ret_cnt)
                  ELSE @]
           /\ outcome' = [outcome EXCEPT ![t] =
                  IF d = "raise" THEN Raised("MaxRetryError", "e") ELSE @]
           /\ frame' = [frame EXCEPT ![t].pc =
                  IF d = "raise" THEN "done" ELSE "cn_next",
                                     ![t].event = "MaxRetryError"]
    /\ UNCHANGED <<built, healthy, nodes, cursor, url, request, client, mode, sent, recv,
                   rotations, calls, batch, yielded, gen>>

\* except Exception: raise e if re_raise; else the value of self._return(...) is
\* dropped and exec falls off its end, returning None
ExecSuppressed(args, return_with_args, self_return_with_args) ==
    LET dropped == Return(NoResponse, args, return_with_args,
                          self_return_with_args)
    IN  Returned(FALSE, None, << >>)

\* a handler of other errors that also moves to the next node
ExecOtherErrorRotating(t) ==
    /\ frame[t].pc = "wait"
    /\ outcome' = [outcome EXCEPT ![t] =
           IF frame[t].re_raise THEN Raised("Exception", "e")
           ELSE ExecSuppressed(frame[t].args, frame[t].return_with_args,
                               client.return_with_args)]
    /\ frame' = [frame EXCEPT ![t].pc = "done", ![t].event = "Exception"]
    /\ cursor' = (cursor + 1) % Len(nodes)
    /\ url' = nodes[cursor + 1]
    /\ request' = nodes[cursor + 1]
    /\ UNCHANGED <<built, healthy, nodes, client, mode, sent, recv, slept,
                   rotations, failures, calls, batch, yielded, gen>>

ExecOtherError(t) ==
    /\ frame[t].pc = "wait"
    /\ outcome' = [outcome EXCEPT ![t] =
           IF frame[t].re_raise THEN Raised("Exception", "e")
           ELSE ExecSuppressed(frame[t].args, frame[t].return_with_args,
                               client.return_with_args)]
    /\ frame' = [frame EXCEPT ![t].pc = "done", ![t].event = "Exception"]
    /\ UNCHANGED <<built, healthy, nodes, cursor, url, request, client, mode, sent, recv, slept,
                   rotations, failures, calls, batch, yielded, gen>>

\* ------------------------------------------------------------- the caller
\* A run is: some manual change_node calls, then one entry point (one exec call
\* or one batch); every state of the client a single thread can reach is reached
\* by the manual calls.
CallerFree == frame[Caller].pc = "idle"

\* rpc.exec(name, *args, api=..., re_raise=..., return_with_args=...)
CallExec(args, api, re_raise, return_with_args) ==
    /\ mode = "exec"
    /\ CallerFree
    /\ calls.exec = 0
    /\ calls' = [calls EXCEPT !.exec = @ + 1]
    /\ frame' = [frame EXCEPT ![Caller] =
           ExecFrame(args, api, re_raise, return_with_args)]
    /\ outcome' = [outcome EXCEPT ![Caller] = NoOutcome]
    /\ sent' = [sent EXCEPT ![Caller] = << >>]
    /\ recv' = [recv EXCEPT ![Caller] = << >>]
    /\ slept' = [slept EXCEPT ![Caller] = << >>]
    /\ UNCHANGED <<built, healthy, nodes, cursor, url, request, client, mode, rotations, failures,
                   batch, yielded, gen>>

\* rpc.change_node()
CallChangeNode ==
    /\ CallerFree
    /\ gen.pc \in {"created", "suspended"}
    /\ calls.manual < MaxManual
    /\ calls' = [calls EXCEPT !.manual = @ + 1]
    /\ frame' = [frame EXCEPT ![Caller] =
           [IdleFrame EXCEPT !.pc = "cn_next", !.caller = "manual"]]
    /\ UNCHANGED <<built, healthy, nodes, cursor, url, request, client, mode, outcome, sent, recv,
                   slept, rotations, failures, batch, yielded, gen>>

ChangeNode(t) ==
    \/ ChangeNodeNext(t)
    \/ ChangeNodeStoreUrl(t)
    \/ ChangeNodeReadUrl(t)
    \/ ChangeNodeStoreRequest(t)

Exec(t) ==
    \/ ExecSend(t)
    \/ \E r \in Answers : ExecResponse(t, r)
    \/ ExecMaxRetryError(t)
    \/ ExecOtherError(t)

Next ==
    \/ \E args \in ArgTuples, api \in {None, Namespace},
          re_raise \in {NotPassed, "True", "False"},
          return_with_args \in {None, "True", "False"} :
            CallExec(args, api, re_raise, return_with_args)
    \/ CallChangeNode
    \/ Exec(Caller)
    \/ ChangeNode(Caller)

Spec == Init /\ [][Next]_vars

\* -------------------------------------------------------------- exec_multi
\* a body whose params are the element itself, not the list holding it
exec_multi_body_unwrapped(name, i) ==
    [jsonrpc |-> "2.0", id |-> DefaultId, method |-> name, params |-> i]

\* one element of body_gen: {"method": name, "params": [i], "jsonrpc": "2.0",
\* "id": 0}
exec_multi_body(name, i) ==
    [jsonrpc |-> "2.0", id |-> DefaultId, method |-> name, params |-> <<i>>]

InitMulti ==
    \E m \in 1..MaxNodes, rwa \in BOOLEAN, rr \in BOOLEAN, params \in Batches :
        /\ Construct(m, "multi", rwa, rr, params)
        /\ healthy = {}

\* next() on the generator: the for loop takes the next body and calls
\* self.request(body=json_body) ...
MultiSend ==
    /\ mode = "multi"
    /\ CallerFree
    /\ gen.pc \in {"created", "suspended"}
    /\ gen.i < Len(batch)
    /\ gen' = [gen EXCEPT !.pc = "wait", !.i = @ + 1]
    /\ sent' = [sent EXCEPT ![Caller] =
           Append(@, [url |-> request,
                      body |-> exec_multi_body(MethodName, batch[gen.i + 1])])]
    /\ UNCHANGED <<built, healthy, nodes, cursor, url, request, client, mode, frame, outcome, recv,
                   slept, rotations, failures, calls, batch, yielded>>

\* ... or finds body_gen exhausted and returns (StopIteration)
MultiStop ==
    /\ mode = "multi"
    /\ CallerFree
    /\ gen.pc \in {"created", "suspended"}
    /\ gen.i = Len(batch)
    /\ gen' = [gen EXCEPT !.pc = "exhausted"]
    /\ UNCHANGED <<built, healthy, nodes, cursor, url, request, client, mode, frame, outcome, sent,
                   recv, slept, rotations, failures, calls, batch, yielded>>

\* yield self._return(response=..., args=body['params'], return_with_args=True);
\* an exception of _return leaves the generator
MultiYield(r) ==
    LET o == Return(r, exec_multi_body(MethodName, batch[gen.i]).params, "True",
                    client.return_with_args)
    IN  /\ yielded' = IF o.kind = "return" THEN Append(yielded, o) ELSE yielded
        /\ outcome' = IF o.kind = "return" THEN outcome
                      ELSE [outcome EXCEPT ![Caller] = o]
        /\ gen' = [gen EXCEPT !.pc = IF o.kind = "return" THEN "suspended"
                                     ELSE "raised"]

MultiResponse(r) ==
    /\ mode = "multi"
    /\ gen.pc = "wait"
    /\ recv' = [recv EXCEPT ![Caller] = Append(@, r)]
    /\ MultiYield(r)
    /\ UNCHANGED <<built, healthy, nodes, cursor, url, request, client, mode, frame, sent, slept,
                   rotations, failures, calls, batch>>

\* self.request raises: exec_multi has no handler, the exception leaves the
\* generator
MultiRaise(exc) ==
    /\ outcome' = [outcome EXCEPT ![Caller] = Raised(exc, "e")]
    /\ gen' = [gen EXCEPT !.pc = "raised"]

MultiMaxRetryError ==
    /\ mode = "multi"
    /\ gen.pc = "wait"
    /\ failures < FailureBudget
    /\ failures' = failures + 1
    /\ MultiRaise("MaxRetryError")
    /\ UNCHANGED <<built, healthy, nodes, cursor, url, request, client, mode, frame, sent, recv,
                   slept, rotations, calls, batch, yielded>>

MultiOtherError ==
    /\ mode = "multi"
    /\ gen.pc = "wait"
    /\ MultiRaise("Exception")
    /\ UNCHANGED <<built, healthy, nodes, cursor, url, request, client, mode, frame, sent, recv,
                   slept, rotations, failures, calls, batch, yielded>>

NextMulti ==
    \/ MultiSend
    \/ MultiStop
    \/ \E r \in Responses : MultiResponse(r)
    \/ MultiMaxRetryError
    \/ MultiOtherError
    \/ CallChangeNode
    \/ ChangeNode(Caller)

SpecMulti == InitMulti /\ [][NextMulti]_vars

\* ------------------------------------------------- exec_multi_with_futures
InitFutures ==
    \E m \in 1..MaxNodes, rwa \in BOOLEAN, params \in Batches :
        /\ Construct(m, "futures", rwa, FALSE, params)
        /\ healthy = {}

\* the futures of the batch: future w runs exec(name, params[w]) on a thread of
\* the pool (max_workers=None: the pool has a thread for every call modelled)
Futures == 1..Len(batch)

\* the first next() on the generator: as_completed consumes the generator of
\* executor.submit(self.exec, name, param), which starts every call
FuturesSubmit ==
    /\ mode = "futures"
    /\ CallerFree
    /\ gen.pc = "created"
    /\ frame' = [t \in Threads |->
           IF t \in Futures THEN ExecFrame(<<batch[t]>>, None, NotPassed, None)
           ELSE frame[t]]
    /\ gen' = [gen EXCEPT !.pc = "running"]
    /\ UNCHANGED <<built, healthy, nodes, cursor, url, request, client, mode, outcome, sent, recv,
                   slept, rotations, failures, calls, batch, yielded>>

\* for future in as_completed(futures): yield future.result(); result() of a
\* call that raised raises in the generator, which ends it: the with block
\* waits for the running calls and drops what they return
FuturesYield(w) ==
    /\ mode = "futures"
    /\ gen.pc = "running"
    /\ w \in Futures \ gen.consumed
    /\ frame[w].pc = "done"
    /\ yielded' = IF outcome[w].kind = "return" THEN Append(yielded, outcome[w])
                  ELSE yielded
    /\ outcome' = IF outcome[w].kind = "return" THEN outcome
                  ELSE [outcome EXCEPT ![Caller] = outcome[w]]
    /\ gen' = [gen EXCEPT !.consumed = @ \cup {w},
                          !.pc = IF outcome[w].kind = "return" THEN "running"
                                 ELSE "raised"]
    /\ UNCHANGED <<built, healthy, nodes, cursor, url, request, client, mode, frame, sent, recv,
                   slept, rotations, failures, calls, batch>>

\* as_completed has yielded every future: the generator returns
FuturesStop ==
    /\ mode = "futures"
    /\ gen.pc = "running"
    /\ gen.consumed = Futures
    /\ gen' = [gen EXCEPT !.pc = "exhausted"]
    /\ UNCHANGED <<built, healthy, nodes, cursor, url, request, client, mode, frame, outcome, sent,
                   recv, slept, rotations, failures, calls, batch, yielded>>

NextFutures ==
    \/ FuturesSubmit
    \/ \E w \in Workers : FuturesYield(w)
    \/ FuturesStop
    \/ \E w \in Workers : Exec(w)
    \/ \E w \in Workers : ChangeNode(w)

SpecFutures == InitFutures /\ [][NextFutures]_vars

(***************************************************************************)
(* HttpClient.json_rpc_body called on a client, between manual rotations   *)
(***************************************************************************)
InitBody ==
    \E m \in 1..MaxNodes, rwa \in BOOLEAN, rr \in BOOLEAN :
        /\ Construct(m, "body", rwa, rr, << >>)
        /\ healthy = {}

\* rpc.json_rpc_body(name, *args, api=..., as_json=..., _id=...): a static
\* method; the dictionary is returned as it is or encoded as JSON bytes
\* (one call in a run)
CallJsonRpcBody(name, args, api, as_json, id) ==
    /\ mode = "body"
    /\ CallerFree
    /\ ~built.called
    /\ built' = [called |-> TRUE, name |-> name, args |-> args, api |-> api,
                 id |-> id, as_json |-> as_json,
                 result |->
                     [kind |-> IF as_json THEN "bytes" ELSE "dict",
                      json |-> json_rpc_body(name, args, api,
                                   IF id.passed THEN id.value ELSE DefaultId)]]
    /\ UNCHANGED <<healthy, nodes, cursor, url, request, client, mode, frame,
                   outcome, sent, recv, slept, rotations, failures, calls,
                   batch, yielded, gen>>

NextBody ==
    \/ \E name \in MethodNames, args \in BodyArgs, api \in ApiArgs,
          as_json \in BOOLEAN, id \in IdArgs :
            CallJsonRpcBody(name, args, api, as_json, id)
    \/ CallChangeNode
    \/ ChangeNode(Caller)

SpecBody == InitBody /\ [][NextBody]_vars

(***************************************************************************)
(* A client used for one of: an exec call, an exec_multi batch,            *)
(* json_rpc_body calls; each with manual rotations                         *)
(***************************************************************************)
\* the batch is answered with the bodies of BatchResponses
InitAll == Init \/ InitMulti \/ InitBody

NextAll ==
    \/ \E args \in ArgTuples, api \in {None, Namespace},
          re_raise \in {NotPassed, "True", "False"},
          return_with_args \in {None, "True", "False"} :
            CallExec(args, api, re_raise, return_with_args)
    \/ Exec(Caller)
    \/ MultiSend
    \/ MultiStop
    \/ \E r \in BatchResponses : MultiResponse(r)
    \/ MultiMaxRetryError
    \/ MultiOtherError
    \/ \E name \in MethodNames, args \in BodyArgs, api \in ApiArgs,
          as_json \in BOOLEAN, id \in IdArgs :
            CallJsonRpcBody(name, args, api, as_json, id)
    \/ CallChangeNode
    \/ ChangeNode(Caller)

SpecAll == InitAll /\ [][NextAll]_vars

(***************************************************************************)
(* One exec call on a client whose endpoints are either healthy (always    *)
(* answer with a result) or down (always fail with MaxRetryError)          *)
(***************************************************************************)
HealthyResponses == {ResultBody("r1"), ResultBody("null")}

InitHealthy ==
    \E m \in 1..MaxNodes, rwa \in BOOLEAN, rr \in BOOLEAN :
        /\ Construct(m, "exec", rwa, rr, << >>)
        /\ healthy \in SUBSET {nodes[i] : i \in 1..m}
        /\ healthy # {}

\* self.request(body=body) on a healthy endpoint returns a response
HealthyResponse(t, r) ==
    /\ frame[t].pc = "wait"
    /\ Last(sent[t]).url \in healthy
    /\ ExecResponse(t, r)

\* self.request(body=body) on an endpoint that is down raises MaxRetryError
DownMaxRetryError(t) ==
    /\ frame[t].pc = "wait"
    /\ Last(sent[t]).url \notin healthy
    /\ ExecMaxRetryError(t)

HealthyExec(t) ==
    \/ ExecSend(t)
    \/ \E r \in HealthyResponses : HealthyResponse(t, r)
    \/ DownMaxRetryError(t)

NextHealthy ==
    \/ \E args \in ArgTuples, api \in {None, Namespace},
          re_raise \in {NotPassed, "True", "False"},
          return_with_args \in {None, "True", "False"} :
            CallExec(args, api, re_raise, return_with_args)
    \/ CallChangeNode
    \/ HealthyExec(Caller)
    \/ ChangeNode(Caller)

\* a call that has started runs on: the thread is never stopped for ever
SpecHealthy ==
    /\ InitHealthy
    /\ [][NextHealthy]_vars
    /\ WF_vars(HealthyExec(Caller) \/ ChangeNode(Caller))

\* ================================================================== claims
\* position of endpoint u in the configured list, counted from 0
IndexOf(u) == CHOOSE i \in 0..(Len(nodes) - 1) : nodes[i + 1] = u
\* the exec call of thread t has ended
ExecDone(t) == frame[t].caller = "exec" /\ frame[t].pc = "done"

\* C1: once 11 consecutive connectivity failures have occurred in one exec call,
\* the call has ended by raising the connectivity error, with no result, and
\* exactly the 11 failed sends were made.
C1_RetryCeiling ==
    (mode = "exec" /\ frame[Caller].caller = "exec" /\ failures >= RetryCeiling + 1)
        => /\ ExecDone(Caller)
           /\ outcome[Caller].kind = "raise"
           /\ outcome[Caller].exc = "MaxRetryError"
           /\ Len(sent[Caller]) = RetryCeiling + 1

\* C2: when the first N sends (N <= 10) of a single-threaded exec call fail with
\* a connectivity error and send N+1 gets a response, the call made exactly N
\* rotations and N+1 sends, send k+1 went to endpoint (s+k) mod M, the call
\* ended as _return of that response ends, and the active endpoint (url and the
\* target of request) is endpoint (s+N) mod M.
C2_FailoverThenSuccess ==
    (mode = "exec" /\ ExecDone(Caller) /\ Len(recv[Caller]) = 1
        /\ failures <= RetryCeiling)
        => LET f == frame[Caller]
               M == Len(nodes)
               s == IndexOf(f.url0)
               N == failures
           IN  /\ rotations - f.rot0 = N
               /\ Len(sent[Caller]) = N + 1
               /\ \A k \in 0..N : sent[Caller][k + 1].url = nodes[((s + k) % M) + 1]
               /\ outcome[Caller] = Return(recv[Caller][1], f.args,
                                           f.return_with_args,
                                           client.return_with_args)
               /\ url = nodes[((s + N) % M) + 1]
               /\ request = url

\* a call that got its response after 10 connectivity failures on 3 endpoints
C2_Witness ==
    /\ mode = "exec" /\ ExecDone(Caller) /\ Len(recv[Caller]) = 1
    /\ failures = RetryCeiling /\ Len(nodes) = 3
    /\ outcome[Caller].kind = "return" /\ outcome[Caller].result = "r1"

\* C3: a response whose JSON body has an "error" field makes exec raise RPCError
\* whatever re_raise is, after the one send that got the response, with no
\* rotation and no retry after it.
C3_ProtocolErrorSurfaces ==
    (mode = "exec" /\ Len(recv[Caller]) >= 1
        /\ Last(recv[Caller]).json = "object" /\ Last(recv[Caller]).error # Absent)
        => /\ ExecDone(Caller)
           /\ outcome[Caller].kind = "raise"
           /\ outcome[Caller].exc = "RPCError"
           /\ Len(recv[Caller]) = 1
           /\ Len(sent[Caller]) = failures + 1
           /\ rotations - frame[Caller].rot0 = failures

\* C4: every request body sent for an exec call invoked with a namespace has
\* wire method "call" and params [namespace, method, args], the retries like the
\* first attempt.
C4_NamespaceKept ==
    (mode = "exec" /\ frame[Caller].caller = "exec" /\ frame[Caller].api0 # None)
        => \A k \in 1..Len(sent[Caller]) :
              /\ sent[Caller][k].body.method = "call"
              /\ sent[Caller][k].body =
                    json_rpc_body(MethodName, frame[Caller].args,
                                  frame[Caller].api0, DefaultId)

\* no thread is inside change_node
NoRotationInProgress ==
    \A t \in Threads :
        frame[t].pc \notin {"cn_next", "cn_url", "cn_read", "cn_request"}
\* the generator of the batch has ended, by returning or by raising
GenEnded == gen.pc \in {"exhausted", "raised"}

\* C5: a concurrent batch in which no call raises yields exactly N items, each a
\* (result, args) pair, and every future's args are the args of exactly one
\* yielded pair, whatever return_with_args the client was constructed with.
C5_ConcurrentPairing ==
    (mode = "futures" /\ gen.pc = "exhausted")
        => /\ Len(yielded) = Len(batch)
           /\ \A i \in 1..Len(yielded) : yielded[i].paired
           /\ \E p \in [Futures -> Futures] :
                 /\ \A i, j \in Futures : p[i] = p[j] => i = j
                 /\ \A i \in Futures : yielded[i].args = frame[p[i]].args

\* C6: the consumer that drains a concurrent batch observes an outcome (a
\* yielded result or a raised error) for each of the N submitted calls.
C6_NoOutcomeLost ==
    (mode = "futures" /\ GenEnded)
        => Len(yielded) + (IF gen.pc = "raised" THEN 1 ELSE 0) = Len(batch)

\* C7: in exec_multi a connectivity failure of a send causes a rotation and a
\* retry, and MaxRetryError reaches the caller only after the retry ceiling is
\* exceeded.
C7_SequentialFailover ==
    (mode = "multi" /\ failures >= 1)
        => /\ rotations >= calls.manual + 1
           /\ (gen.pc = "raised" /\ outcome[Caller].exc = "MaxRetryError")
                 => failures > RetryCeiling

\* the i-th pair exec_multi yields is (the result of the i-th response, args)
YieldedInOrder(args(_)) ==
    /\ Len(yielded) <= Len(batch)
    /\ Len(recv[Caller]) >= Len(yielded)
    /\ \A i \in 1..Len(yielded) :
          /\ yielded[i].kind = "return" /\ yielded[i].paired
          /\ yielded[i].result = ResultOf(recv[Caller][i])
          /\ yielded[i].args = args(i)
    \* the send for p(i+1) is made only after the pair for pi was yielded
    /\ Len(sent[Caller]) \in {Len(yielded), Len(yielded) + 1}
    /\ \A i \in 1..Len(sent[Caller]) :
          sent[Caller][i].body = exec_multi_body(MethodName, batch[i])
    /\ gen.pc = "exhausted" => Len(yielded) = Len(batch)

SuppliedParam(i) == batch[i]
ParamsList(i) == <<batch[i]>>

\* C8 as stated: exec_multi over p1..pN yields, in input order and lazily, the
\* pairs (result of the call for pi, pi), N of them when no send fails.
C8_Original == mode = "multi" => YieldedInOrder(SuppliedParam)

\* C8 as amended: exec_multi over p1..pN yields, in input order and lazily, the
\* pairs (result of the call for pi, [pi]), the second component being the
\* one-element params list of the request built for pi; N of them when no
\* send fails and no response is an error.
C8_SequentialOrder == mode = "multi" => YieldedInOrder(ParamsList)

\* a batch of two different parameter sets, drained to the end
C8_Witness ==
    /\ mode = "multi" /\ gen.pc = "exhausted"
    /\ Len(batch) = 2 /\ batch[1] # batch[2] /\ Len(yielded) = 2
    /\ yielded[1].result = "r1" /\ yielded[2].result = None

\* C9: whenever no rotation is in progress, self.url and the endpoint
\* self.request targets are the same element of the configured list.
C9_RotationAtomic ==
    (mode = "futures" /\ NoRotationInProgress)
        => /\ url = request
           /\ \E i \in 1..Len(nodes) : nodes[i] = url

\* C10: an error object with a detail field makes exec raise RPCError carrying
\* detail, with or without a message field; one without detail makes it raise
\* RPCError carrying message.
C10_ErrorMessageSelection ==
    (mode = "exec" /\ ExecDone(Caller) /\ Len(recv[Caller]) = 1
        /\ recv[Caller][1].json = "object" /\ recv[Caller][1].error # Absent)
        => /\ outcome[Caller].kind = "raise"
           /\ outcome[Caller].exc = "RPCError"
           /\ outcome[Caller].msg =
                 IF recv[Caller][1].detail # Absent THEN recv[Caller][1].detail
                 ELSE recv[Caller][1].message

\* a body that is not valid JSON, or valid JSON without the expected fields
InvalidBody == Body("invalid", Absent, Absent, Absent, Absent)
Malformed(r) ==
    \/ r.json # "object"
    \/ r.result = Absent /\ r.error = Absent
\* the single send of the call was answered by the body r
AnsweredBy(r) ==
    /\ mode = "exec" /\ ExecDone(Caller)
    /\ frame[Caller].event = "response" /\ Last(recv[Caller]) = r

\* C11: a response body that is not valid JSON, or is valid JSON lacking the
\* expected fields (an object with neither result nor error, or a value that is
\* not an object), makes exec raise nothing and return the absent result.
C11_MalformedAbsorbed ==
    \A r \in Responses :
        (AnsweredBy(r) /\ Malformed(r))
            => outcome[Caller].kind = "return" /\ outcome[Caller].result = None

\* C12: what exec returns for the body {"result": null} differs from what the
\* same call returns for a parse failure and for a suppressed transport error.
C12_NullDistinctFromAbsent ==
    AnsweredBy(ResultBody("null"))
        => LET f == frame[Caller]
           IN  /\ outcome[Caller] # Return(InvalidBody, f.args, f.return_with_args,
                                           client.return_with_args)
               /\ outcome[Caller] # ExecSuppressed(f.args, f.return_with_args,
                                                   client.return_with_args)

\* the re-raise setting in force for a call: the call's re_raise keyword, or the
\* client's re_raise when the call passes none
ReRaiseInForce(f) == Keyword(f.re_raise0, client.re_raise)

\* C13: when a send fails with an error that is not connectivity-class, exec
\* rotates and retries no more; the error propagates if the re-raise setting in
\* force (the client's, unless the call overrides it) is true, and otherwise
\* exec raises nothing and returns the absent result.
C13_ReRaiseSetting ==
    (mode = "exec" /\ ExecDone(Caller) /\ frame[Caller].event = "Exception")
        => /\ Len(sent[Caller]) = failures + 1
           /\ rotations - frame[Caller].rot0 = failures
           /\ IF ReRaiseInForce(frame[Caller])
              THEN outcome[Caller] = Raised("Exception", "e")
              ELSE outcome[Caller].kind = "return" /\ outcome[Caller].result = None

\* C14: after construction endpoint 0 is active; after N rotations (manual
\* change_node calls or failovers of a single thread) the active endpoint is
\* endpoint N mod M of the configured list; in every state the active endpoint
\* is one of the M configured endpoints.
C14_CyclicRotation ==
    mode = "exec"
        => /\ \E i \in 1..Len(nodes) : nodes[i] = url
           /\ \E i \in 1..Len(nodes) : nodes[i] = request
           /\ NoRotationInProgress
                 => /\ url = nodes[(rotations % Len(nodes)) + 1]
                    /\ request = url

\* two manual rotations and two failovers on three endpoints: the cycle has
\* wrapped around
C14_Witness ==
    /\ mode = "exec" /\ NoRotationInProgress /\ Len(nodes) = 3
    /\ calls.manual = 2 /\ failures = 2 /\ rotations = 4 /\ url = 1

\* C15: for every method name, argument sequence and request id,
\* json_rpc_body without a namespace builds {jsonrpc "2.0", id, method,
\* params: args in the supplied order} and with a namespace builds
\* {jsonrpc "2.0", id, method "call", params: [namespace, method, args]}; the
\* id is 0 when none is passed; the call changes no state of the client.
C15_RequestBuilding ==
    /\ [](built.called =>
            LET rid == IF built.id.passed THEN built.id.value ELSE 0
            IN  built.result.json =
                    IF built.api \in {None, ""}
                    THEN [jsonrpc |-> "2.0", id |-> rid,
                          method |-> built.name, params |-> built.args]
                    ELSE [jsonrpc |-> "2.0", id |-> rid, method |-> "call",
                          params |-> <<built.api, built.name, built.args>>])
    /\ [][built' # built
             => UNCHANGED <<nodes, cursor, url, request, client, rotations,
                            frame, calls>>]_vars

\* a body built with a namespace, two arguments and no id, on a client that
\* has rotated once
C15_Witness ==
    /\ built.called /\ built.api = Namespace /\ ~built.id.passed
    /\ built.args = <<"a", "b">> /\ built.result.json.id = 0
    /\ built.result.json.method = "call"
    /\ rotations = 1 /\ CallerFree

\* the pauses of an exec call after k connectivity failures, when the first
\* pause follows failure number first and the i-th pause lasts 5 * (i + 2)
Pauses(k, first) ==
    [i \in 1..(IF k >= first THEN k - first + 1 ELSE 0) |-> 5 * (i + 2)]

\* every retry of the call was sent after a rotation of its own
RotationBeforeRetry ==
    /\ Len(sent[Caller]) <= (rotations - frame[Caller].rot0) + 1
    /\ rotations - frame[Caller].rot0 <= failures
    /\ NoRotationInProgress => rotations - frame[Caller].rot0 = failures

\* C16 as stated: before the retry that follows the k-th consecutive
\* connectivity failure of an exec call the executor pauses 5 * k time units
\* if k > 2 and does not pause if k <= 2; a rotation precedes every retry.
C16_Original ==
    (mode = "exec" /\ frame[Caller].caller = "exec")
        => /\ slept[Caller] = Pauses(failures, 3)
           /\ RotationBeforeRetry

\* C16 amended: the counter is tested and used before the failure at hand is
\* counted: the retry after the k-th failure is preceded by a pause of
\* 5 * (k - 1) time units if k > 3 and by no pause if k <= 3; a rotation
\* precedes every retry.
C16_BackoffSchedule ==
    (mode = "exec" /\ frame[Caller].caller = "exec")
        => /\ slept[Caller] = Pauses(failures, 4)
           /\ RotationBeforeRetry

\* a call answered after five failures: it paused twice, 15 and 20
C16_Witness ==
    /\ mode = "exec" /\ ExecDone(Caller) /\ failures = 5
    /\ frame[Caller].event = "response"
    /\ slept[Caller] = <<15, 20>>
    /\ Len(sent[Caller]) = 6

\* C17: the active endpoint and the rotation cursor change only inside
\* change_node, which is entered only by a failover or a manual call: an exec
\* call that ends without a connectivity failure, every json_rpc_body call and
\* every step of exec_multi leave them unchanged.
C17_EndpointFrame ==
    /\ []((mode = "exec" /\ ExecDone(Caller) /\ failures = 0)
             => /\ url = frame[Caller].url0
                /\ request = frame[Caller].url0
                /\ rotations = frame[Caller].rot0
                /\ cursor = (frame[Caller].rot0 + 1) % Len(nodes))
    /\ [][/\ (built' # built \/ gen' # gen \/ yielded' # yielded)
                => UNCHANGED <<url, request, cursor, rotations>>
          /\ NoRotationInProgress
                => UNCHANGED <<url, request, cursor, rotations>>
          /\ \A t \in Threads :
                (frame'[t].pc = "cn_next" /\ frame[t].pc # "cn_next")
                    => \/ mode = "exec" /\ failures' = failures + 1
                       \/ calls'.manual = calls.manual + 1]_vars

\* an exec call ended by a non-connectivity transport error after one manual
\* rotation: the second endpoint is still the active one
C17_Witness ==
    /\ mode = "exec" /\ ExecDone(Caller) /\ failures = 0
    /\ frame[Caller].event = "Exception"
    /\ calls.manual = 1 /\ url = 1 /\ request = 1 /\ Len(nodes) = 3

\* C18: on a client with M >= 2 endpoints shared by the workers of
\* exec_multi_with_futures, every retry of a worker, sent after the worker's
\* own rotation, goes to an endpoint different from the endpoint of the send
\* that just failed.
C18_RetryToDifferentNode ==
    (mode = "futures" /\ Len(nodes) >= 2)
        => \A w \in Workers : \A k \in 2..Len(sent[w]) :
               sent[w][k].url # sent[w][k - 1].url

\* C19: a single-threaded exec call on a client with M endpoints, of which at
\* least one always answers with a well-formed result and the others always
\* fail with a connectivity error, eventually returns that result after at
\* most M-1 rotations, and the active endpoint is then a healthy one.
C19_Recovery ==
    /\ [](ExecDone(Caller)
            => /\ outcome[Caller].kind = "return"
               /\ Last(recv[Caller]) \in HealthyResponses
               /\ outcome[Caller].result = ResultOf(Last(recv[Caller]))
               /\ rotations - frame[Caller].rot0 <= Len(nodes) - 1
               /\ url \in healthy /\ request \in healthy
               /\ Last(sent[Caller]).url = request)
    /\ (frame[Caller].caller = "exec") ~> ExecDone(Caller)

\* three endpoints of which only one is healthy: the call got its result from
\* it after two failovers
C19_Witness ==
    /\ ExecDone(Caller) /\ Len(nodes) = 3 /\ healthy = {url}
    /\ failures = 2 /\ rotations - frame[Caller].rot0 = 2
    /\ outcome[Caller].kind = "return" /\ outcome[Caller].result = "r1"

\* C20: for an exec call with return_with_args in effect (per call or on the
\* client), every outcome that does not raise is a pair (result, args) whose
\* args are the positional arguments of the call, also after a suppressed
\* non-connectivity transport error and after failover retries.
C20_UniformReturnShape ==
    (/\ mode = "exec" /\ ExecDone(Caller)
     /\ outcome[Caller].kind = "return"
     /\ (Truthy(frame[Caller].return_with_args) \/ client.return_with_args))
        => /\ outcome[Caller].paired
           /\ outcome[Caller].args = frame[Caller].args

====
